---------------------------- MODULE Spec2Model ----------------------------
(***************************************************************************)
(* The dynamic request batching of the NSFW detector function              *)
(* (functions/nsfw-detector/main_optimized.py): the handler threads that   *)
(* submit one image each, the bounded request_queue, the background        *)
(* _batch_processor thread, the response_dict guarded by batch_lock and    *)
(* the model execution (_detect_single / _detect_batch).                   *)
(*                                                                         *)
(* Time advances in ticks (Tick).  Only two things take time: a model      *)
(* execution and the arrival of the next request.  Every other step of a   *)
(* runnable thread is taken before the next tick, so a blocking call       *)
(* returns at the tick at which its condition or its timeout is met.       *)
(* Durations are scaled to a few ticks and keep their order:               *)
(* BATCH_TIMEOUT <= PUT_TIMEOUT < WAIT_TIMEOUT.  The 1 ms polls of the     *)
(* collecting loop are shorter than a tick.  Elapsed times are kept as     *)
(* tick counts that stop growing once past their timeout; the wall clock   *)
(* `now`, read only to build request ids, stops at MaxTime.                *)
(*                                                                         *)
(* Two further parts share the module.  The handler of either deployed     *)
(* file (main_optimized.py or main_batch.py, `variant`) with request       *)
(* bodies of every kind ('image', 'url', 'images'): SpecKinds.  The        *)
(* LoadTester of benchmark/faas_benchmark/tester.py, an asyncio program    *)
(* whose tasks run one at a time: SpecTester.  Each part leaves the        *)
(* variables of the others unchanged.                                      *)
(***************************************************************************)
EXTENDS Integers, Sequences, FiniteSets, TLC

\* ------------------------------------------------------------------ bounds
\* handler threads of the process, each serving one request
NCallers == 3
\* BATCH_SIZE ranges over 1..MaxBatchSize; MAX_QUEUE_SIZE is QueueCapacity
MaxBatchSize == 2
QueueCapacity == 1
\* BATCH_SIZE of the partial-batch scenario
PartialBatchSize == 3
\* the last tick the wall clock shows
MaxTime == 2
\* largest config.concurrency of a LoadTester
MaxConcurrency == 2
\* largest config.total_requests of a LoadTester
MaxTotal == 3
\* largest config.duration of a LoadTester, in ticks
MaxDuration == 1
\* the count of completed requests of a LoadTester stops growing here
MaxCompleted == 5

\* ------------------------------------------------------- program constants
\* BATCH_TIMEOUT_MS / 1000.0 (50 ms), in ticks
BATCH_TIMEOUT == 1
\* request_queue.put(item, timeout=5), in ticks
PUT_TIMEOUT == 1
\* event_flag.wait(timeout=30), in ticks
WAIT_TIMEOUT == 2
\* deque(maxlen=100000) of LoadTester.results, scaled to a few results
RESULTS_MAXLEN == 2

Callers == 1..NCallers
\* the worker tasks a LoadTester can create
Workers == 1..MaxConcurrency
\* the _batch_processor thread, as a holder of batch_lock and a user of the model
AGG == 0
FREE == -1
None == <<"None">>

VARIABLES
    BATCH_SIZE,      \* int(os.getenv("BATCH_SIZE"))
    MAX_QUEUE_SIZE,  \* int(os.getenv("MAX_QUEUE_SIZE")), maxsize of request_queue
    now,             \* time.time(), in ticks since the process started
    request_queue,   \* queue.Queue(maxsize=MAX_QUEUE_SIZE): sequence of items
    response_dict,   \* dict request_id -> result
    batch_lock,      \* threading.Lock(): FREE or the thread holding it
    running,         \* threads inside _detect_single / _detect_batch
    pc,              \* handler thread -> position in handler
    request_id,      \* handler thread -> its request_id
    waited,          \* handler thread -> ticks spent in its blocking put or wait
    event_flag,      \* handler thread -> its threading.Event is set
    via,             \* handler thread -> how it entered: queued / full / direct
    got,             \* handler thread -> where its result came from
    response,        \* handler thread -> the Response it returned
    apc,             \* position of _batch_processor
    batch_items,     \* _batch_processor: batch_items (batch_images are their images)
    elapsed,         \* _batch_processor: elapsed = time.time() - start_time
    results,         \* _batch_processor: results of _detect_batch
    idx,             \* _batch_processor: index of the distributing loop
    age,             \* history: ticks since the first item of the batch was dequeued
    batches,         \* history: the batches passed to _detect_batch by the thread
    served,          \* history: handler thread -> how its event came to be set
    variant,         \* the deployed file: "optimized" (main_optimized.py) or "batch" (main_batch.py)
    kind,            \* handler thread -> the field of its request body: image / url / images
    concurrency,     \* LoadTester: config.concurrency
    total_requests,  \* LoadTester: config.total_requests
    duration,        \* LoadTester: config.duration, <<>> for None and <<d>> for the int d
    tester_results,  \* LoadTester: self.results, a deque of RequestResult.success
    request_count,   \* LoadTester: self._request_count
    stop_event,      \* LoadTester: self._stop_event is set
    wpc,             \* LoadTester: worker task -> its position in _worker
    dpc,             \* LoadTester: position of the _duration_controller task
    rpc,             \* LoadTester: position of run
    slept,           \* LoadTester: ticks the _duration_controller has slept
    summary,         \* LoadTester: the BenchmarkResult returned by run
    stopped_by       \* history: the tasks that have set self._stop_event

vars == <<BATCH_SIZE, MAX_QUEUE_SIZE, now, request_queue, response_dict, batch_lock,
          running, pc, request_id, waited, event_flag, via, got, response,
          apc, batch_items, elapsed, results, idx, age, batches, served,
          variant, kind, concurrency, total_requests, duration, tester_results,
          request_count, stop_event, wpc, dpc, rpc, slept, summary, stopped_by>>

cfgVars == <<BATCH_SIZE, MAX_QUEUE_SIZE>>
testerVars == <<concurrency, total_requests, duration, tester_results,
                request_count, stop_event, wpc, dpc, rpc, slept, summary, stopped_by>>
\* what no step of the batching of 'image' requests changes
restVars == <<variant, kind, testerVars>>
aggVars == <<apc, batch_items, elapsed, results, idx, age, batches, served>>
callerVars == <<pc, request_id, waited, event_flag, via, got, response>>


\* ------------------------------------------------------------ pure helpers
\* str(n) of a non-negative int: its decimal digits
Digit(d) == <<"0", "1", "2", "3", "4", "5", "6", "7", "8", "9">>[d + 1]

RECURSIVE IntStr(_)
IntStr(n) ==
    IF n < 10 THEN <<Digit(n)>> ELSE Append(IntStr(n \div 10), Digit(n % 10))

\* time.time() at tick t: the clock is read in hundredths of a second, the
\* process starting at 1.00 s
TimeReading(t) == 100 + t

\* str(x) of the float x = r / 100: the shortest decimal that reads back as x,
\* so a trailing zero of the fraction is not printed ("1.0", "1.01", "1.1")
FloatStr(r) ==
    LET whole == r \div 100
        frac == r % 100
    IN  IntStr(whole) \o <<".">> \o
        (IF frac % 10 = 0 THEN <<Digit(frac \div 10)>>
                          ELSE <<Digit(frac \div 10), Digit(frac % 10)>>)

\* threading.current_thread().ident of the handler threads: non-zero integers
\* the platform chooses, distinct for threads alive at the same time
ThreadIdent(c) == <<13, 3, 7, 21, 9>>[c]

\* request_id = str(time.time()) + str(threading.current_thread().ident)
RequestId(t, c) == FloatStr(TimeReading(t)) \o IntStr(ThreadIdent(c))

\* body['image'] of the request handled by thread c, decoded by preprocess_image
Image(c) == c

\* the classification of one image by the model
Detect(image) == <<"result", image>>

\* _detect_batch(images): one result per image, in the order of the images
DetectBatch(images) == [i \in 1..Len(images) |-> Detect(images[i])]

\* _make_response(data)
MakeResponse(data) == [success |-> TRUE, data |-> data]

\* _make_error_response(str(e))
MakeErrorResponse == [success |-> FALSE, data |-> <<"error">>]

NoResponse == [success |-> FALSE, data |-> None]

\* run has not returned a BenchmarkResult
NoSummary == [total_requests |-> -1, successful_requests |-> -1, failed_requests |-> -1]

\* USE_DYNAMIC_BATCH with the comparison off by one
UseDynamicBatchFromOne == BATCH_SIZE >= 1

\* USE_DYNAMIC_BATCH = BATCH_SIZE > 1
USE_DYNAMIC_BATCH == BATCH_SIZE > 1

\* QueueFull of a queue that takes one item less than maxsize
QueueFullOneShort == MAX_QUEUE_SIZE > 0 /\ Len(request_queue) >= MAX_QUEUE_SIZE - 1

\* queue.Queue.full(): maxsize <= 0 means an unbounded queue
QueueFull == MAX_QUEUE_SIZE > 0 /\ Len(request_queue) >= MAX_QUEUE_SIZE

\* response_dict.get(rid)
Lookup(rid) == IF rid \in DOMAIN response_dict THEN response_dict[rid] ELSE None

\* response_dict[rid] = r
Store(rid, r) == [k \in DOMAIN response_dict \cup {rid} |->
                      IF k = rid THEN r ELSE response_dict[k]]

\* response_dict without rid
Remove(rid) == [k \in DOMAIN response_dict \ {rid} |-> response_dict[k]]

\* the item a handler puts on the queue; 'event' is the handler's Event
Item(c) == [request_id |-> request_id[c], image |-> Image(c), event |-> c]

\* ------------------------------------------------------------------- Init
\* the state once init_context has returned: the model is loaded and warmed
\* up, the batch thread is started when USE_DYNAMIC_BATCH, no request yet
StartService(batch_size, max_queue_size) ==
    /\ BATCH_SIZE = batch_size
    /\ MAX_QUEUE_SIZE = max_queue_size
    /\ now = 0
    /\ request_queue = <<>>
    /\ response_dict = <<>>
    /\ batch_lock = FREE
    /\ running = {}
    /\ pc = [c \in Callers |-> "idle"]
    /\ request_id = [c \in Callers |-> <<>>]
    /\ waited = [c \in Callers |-> 0]
    /\ event_flag = [c \in Callers |-> FALSE]
    /\ via = [c \in Callers |-> "none"]
    /\ got = [c \in Callers |-> "none"]
    /\ response = [c \in Callers |-> NoResponse]
    /\ apc = IF USE_DYNAMIC_BATCH THEN "outer" ELSE "off"
    /\ batch_items = <<>>
    /\ elapsed = 0
    /\ results = <<>>
    /\ idx = 0
    /\ age = 0
    /\ batches = <<>>
    /\ served = [c \in Callers |-> "none"]

\* no LoadTester has been constructed
TesterOff ==
    /\ concurrency = 0
    /\ total_requests = 0
    /\ duration = <<>>
    /\ tester_results = <<>>
    /\ request_count = 0
    /\ stop_event = FALSE
    /\ wpc = [w \in Workers |-> "none"]
    /\ dpc = "none"
    /\ rpc = "off"
    /\ slept = 0
    /\ summary = NoSummary
    /\ stopped_by = {}

\* QueueMaxsize with main_batch.py creating its queue with a capacity as well
QueueMaxsizeBounded(v) == QueueCapacity

\* maxsize of the request_queue of the deployed file: main_batch.py creates
\* queue.Queue() (line 31), maxsize 0; main_optimized.py passes MAX_QUEUE_SIZE
QueueMaxsize(v) == IF v = "batch" THEN 0 ELSE QueueCapacity

\* main_optimized.py is deployed and every request body holds 'image'
Start(batch_size, max_queue_size) ==
    /\ StartService(batch_size, max_queue_size)
    /\ variant = "optimized"
    /\ kind = [c \in Callers |-> "image"]
    /\ TesterOff

Init == \E b \in 1..MaxBatchSize : Start(b, QueueCapacity)

\* a batch size no burst of the NCallers - 1 other requests fills
InitPartial == Start(PartialBatchSize, QueueCapacity)

\* dynamic batching with any MAX_QUEUE_SIZE from 0 on
InitAnyCapacity == \E q \in 0..QueueCapacity : Start(MaxBatchSize, q)

\* the process with dynamic batching
InitOverload == \E b \in 2..MaxBatchSize : Start(b, QueueCapacity)

\* ------------------------------------------------------- handler threads
\* handler, lines 257-279 and 298-301: the body is parsed and the image decoded;
\* with dynamic batching the request_id, the Event and the item are built,
\* without it the model is called directly
Submit(c) ==
    /\ pc[c] = "idle"
    /\ IF USE_DYNAMIC_BATCH
       THEN /\ request_id' = [request_id EXCEPT ![c] = RequestId(now, c)]
            /\ pc' = [pc EXCEPT ![c] = "put"]
            /\ waited' = [waited EXCEPT ![c] = 0]
            /\ UNCHANGED <<running, via>>
       ELSE /\ pc' = [pc EXCEPT ![c] = "single"]
            /\ running' = running \cup {c}
            /\ via' = [via EXCEPT ![c] = "direct"]
            /\ UNCHANGED <<request_id, waited>>
    /\ UNCHANGED <<cfgVars, restVars, now, request_queue, response_dict, batch_lock,
                   event_flag, got, response, aggVars>>

\* main_batch.py line 274: f"{time.time()}_{threading.current_thread().ident}"
RequestIdBatch(t, c) ==
    FloatStr(TimeReading(t)) \o <<"_">> \o IntStr(ThreadIdent(c))

\* the request_id built by the deployed file
RequestIdOf(t, c) ==
    IF variant = "batch" THEN RequestIdBatch(t, c) ELSE RequestId(t, c)

\* the fields of a request body the handler knows
Kinds == {"image", "url", "images"}

\* ThroughQueue of a main_optimized.py that batches 'url' requests as
\* main_batch.py does
ThroughQueueUrlToo(k) == k \in {"url", "image"} /\ BATCH_SIZE > 1

\* the branch of handler for a body with field k hands the image to the queue:
\* main_optimized.py only 'image' under USE_DYNAMIC_BATCH (lines 267-297, 304-326),
\* main_batch.py 'url' and 'image' when BATCH_SIZE > 1 (lines 205-229, 238-241)
ThroughQueue(k) ==
    IF variant = "batch"
    THEN k \in {"url", "image"} /\ BATCH_SIZE > 1
    ELSE k = "image" /\ USE_DYNAMIC_BATCH

\* handler is called with a body that holds field k: the image goes to the
\* queue, or the handler thread calls the model itself (_detect_single for
\* one image, _detect_batch for the client's 'images')
HandleRequest(c, k) ==
    /\ pc[c] = "idle"
    /\ kind' = [kind EXCEPT ![c] = k]
    /\ IF ThroughQueue(k)
       THEN /\ request_id' = [request_id EXCEPT ![c] = RequestIdOf(now, c)]
            /\ pc' = [pc EXCEPT ![c] = "put"]
            /\ waited' = [waited EXCEPT ![c] = 0]
            /\ UNCHANGED <<running, via>>
       ELSE /\ pc' = [pc EXCEPT ![c] = "single"]
            /\ running' = running \cup {c}
            /\ via' = [via EXCEPT ![c] = "direct"]
            /\ UNCHANGED <<request_id, waited>>
    /\ UNCHANGED <<cfgVars, variant, testerVars, now, request_queue, response_dict,
                   batch_lock, event_flag, got, response, aggVars>>

\* handler, lines 257-268 and 328-333: the body cannot be parsed, the image
\* cannot be decoded or no known field is given; the handler answers with the
\* error
DecodeRaise(c) ==
    /\ pc[c] = "idle"
    /\ pc' = [pc EXCEPT ![c] = "done"]
    /\ via' = [via EXCEPT ![c] = "invalid"]
    /\ got' = [got EXCEPT ![c] = "error"]
    /\ response' = [response EXCEPT ![c] = MakeErrorResponse]
    /\ UNCHANGED <<cfgVars, restVars, now, request_queue, response_dict, batch_lock,
                   running, request_id, waited, event_flag, aggVars>>

\* NCallers requests arrive at the same instant: the step of Submit with
\* dynamic batching, taken by every handler thread at once
SubmitAll ==
    /\ USE_DYNAMIC_BATCH
    /\ \A c \in Callers : pc[c] = "idle"
    /\ request_id' = [c \in Callers |-> RequestId(now, c)]
    /\ pc' = [c \in Callers |-> "put"]
    /\ waited' = [c \in Callers |-> 0]
    /\ UNCHANGED <<cfgVars, restVars, now, request_queue, response_dict, batch_lock,
                   running, event_flag, via, got, response, aggVars>>

\* request_queue.put(item, timeout=5) finds a free slot
PutEnabled(c) == pc[c] = "put" /\ ~QueueFull

Put(c) ==
    /\ PutEnabled(c)
    /\ request_queue' = Append(request_queue, Item(c))
    /\ pc' = [pc EXCEPT ![c] = "wait"]
    /\ waited' = [waited EXCEPT ![c] = 0]
    /\ via' = [via EXCEPT ![c] = "queued"]
    /\ UNCHANGED <<cfgVars, restVars, now, response_dict, batch_lock, running, request_id,
                   event_flag, got, response, aggVars>>

\* request_queue.put raises queue.Full after 5 s on a full queue; the handler
\* calls _detect_single (lines 283-286)
PutFullEnabled(c) == pc[c] = "put" /\ QueueFull /\ waited[c] >= PUT_TIMEOUT

\* PutFull of a handler that leaves its item on the queue all the same before
\* it calls _detect_single itself
PutFullKeepsItem(c) ==
    /\ PutFullEnabled(c)
    /\ request_queue' = Append(request_queue, Item(c))
    /\ pc' = [pc EXCEPT ![c] = "single"]
    /\ running' = running \cup {c}
    /\ via' = [via EXCEPT ![c] = "full"]
    /\ waited' = [waited EXCEPT ![c] = 0]
    /\ UNCHANGED <<cfgVars, restVars, now, response_dict, batch_lock,
                   request_id, event_flag, got, response, aggVars>>

\* PutFull with queue.Full left to the `except Exception` of the handler: the
\* rejection is answered as an error
PutFullError(c) ==
    /\ PutFullEnabled(c)
    /\ pc' = [pc EXCEPT ![c] = "done"]
    /\ via' = [via EXCEPT ![c] = "full"]
    /\ got' = [got EXCEPT ![c] = "error"]
    /\ response' = [response EXCEPT ![c] = MakeErrorResponse]
    /\ waited' = [waited EXCEPT ![c] = 0]
    /\ UNCHANGED <<cfgVars, restVars, now, request_queue, response_dict, batch_lock, running,
                   request_id, event_flag, aggVars>>

PutFull(c) ==
    /\ PutFullEnabled(c)
    /\ pc' = [pc EXCEPT ![c] = "single"]
    /\ running' = running \cup {c}
    /\ via' = [via EXCEPT ![c] = "full"]
    /\ waited' = [waited EXCEPT ![c] = 0]
    /\ UNCHANGED <<cfgVars, restVars, now, request_queue, response_dict, batch_lock,
                   request_id, event_flag, got, response, aggVars>>

\* WaitOver of event_flag.wait() called without a timeout
WaitOverNoTimeout(c) == event_flag[c]

\* event_flag.wait(timeout=30) returns: the event is set, or 30 s have passed
WaitOver(c) == event_flag[c] \/ waited[c] >= WAIT_TIMEOUT

\* event_flag.wait returns and `with batch_lock:` (line 291) acquires the lock
WaitEnabled(c) == pc[c] = "wait" /\ WaitOver(c) /\ batch_lock = FREE

Wait(c) ==
    /\ WaitEnabled(c)
    /\ batch_lock' = c
    /\ pc' = [pc EXCEPT ![c] = "pop"]
    /\ waited' = [waited EXCEPT ![c] = 0]
    /\ UNCHANGED <<cfgVars, restVars, now, request_queue, response_dict, running,
                   request_id, event_flag, via, got, response, aggVars>>

\* result = response_dict.pop(request_id, None), the lock released; a result is
\* returned, None makes the handler call _detect_single (lines 292-297)
PopEnabled(c) == pc[c] = "pop"

\* Pop without the `if result is None` fallback: whatever the pop gave is
\* returned as the result
PopNoFallback(c) ==
    /\ PopEnabled(c)
    /\ batch_lock' = FREE
    /\ response_dict' = Remove(request_id[c])
    /\ pc' = [pc EXCEPT ![c] = "done"]
    /\ got' = [got EXCEPT ![c] = "table"]
    /\ response' = [response EXCEPT ![c] = MakeResponse(Lookup(request_id[c]))]
    /\ UNCHANGED <<cfgVars, restVars, now, request_queue, running, request_id, waited,
                   event_flag, via, aggVars>>

\* Pop with the fallback call indented into the `with batch_lock:` block: the
\* lock is still held while _detect_single runs
PopFallbackInsideLock(c) ==
    /\ PopEnabled(c)
    /\ response_dict' = Remove(request_id[c])
    /\ IF Lookup(request_id[c]) = None
       THEN /\ pc' = [pc EXCEPT ![c] = "single"]
            /\ running' = running \cup {c}
            /\ batch_lock' = batch_lock
            /\ UNCHANGED <<got, response>>
       ELSE /\ pc' = [pc EXCEPT ![c] = "done"]
            /\ got' = [got EXCEPT ![c] = "table"]
            /\ response' = [response EXCEPT ![c] = MakeResponse(Lookup(request_id[c]))]
            /\ batch_lock' = FREE
            /\ UNCHANGED running
    /\ UNCHANGED <<cfgVars, restVars, now, request_queue, request_id, waited, event_flag,
                   via, aggVars>>

Pop(c) ==
    /\ PopEnabled(c)
    /\ batch_lock' = FREE
    /\ response_dict' = Remove(request_id[c])
    /\ IF Lookup(request_id[c]) = None
       THEN /\ pc' = [pc EXCEPT ![c] = "single"]
            /\ running' = running \cup {c}
            /\ UNCHANGED <<got, response>>
       ELSE /\ pc' = [pc EXCEPT ![c] = "done"]
            /\ got' = [got EXCEPT ![c] = "table"]
            /\ response' = [response EXCEPT ![c] = MakeResponse(Lookup(request_id[c]))]
            /\ UNCHANGED running
    /\ UNCHANGED <<cfgVars, restVars, now, request_queue, request_id, waited, event_flag,
                   via, aggVars>>

\* _detect_single(image) returns and the handler answers with its result
SingleReturn(c) ==
    /\ pc[c] = "single"
    /\ running' = running \ {c}
    /\ pc' = [pc EXCEPT ![c] = "done"]
    /\ got' = [got EXCEPT ![c] = "single"]
    /\ response' = [response EXCEPT ![c] = MakeResponse(Detect(Image(c)))]
    /\ UNCHANGED <<cfgVars, restVars, now, request_queue, response_dict, batch_lock,
                   request_id, waited, event_flag, via, aggVars>>

\* SingleRaise without the `except Exception` of the handler: the exception
\* leaves the handler and the request gets no response
SingleRaiseUncaught(c) ==
    /\ pc[c] = "single"
    /\ running' = running \ {c}
    /\ pc' = [pc EXCEPT ![c] = "raised"]
    /\ got' = [got EXCEPT ![c] = "error"]
    /\ UNCHANGED <<cfgVars, restVars, now, request_queue, response_dict, batch_lock,
                   request_id, waited, event_flag, via, response, aggVars>>

\* _detect_single(image) raises: except Exception answers with the error
\* (lines 331-333)
SingleRaise(c) ==
    /\ pc[c] = "single"
    /\ running' = running \ {c}
    /\ pc' = [pc EXCEPT ![c] = "done"]
    /\ got' = [got EXCEPT ![c] = "error"]
    /\ response' = [response EXCEPT ![c] = MakeErrorResponse]
    /\ UNCHANGED <<cfgVars, restVars, now, request_queue, response_dict, batch_lock,
                   request_id, waited, event_flag, via, aggVars>>


\* Remaining with the sign of the elapsed time wrong: the time left never
\* runs out
RemainingSignSlip == BATCH_TIMEOUT + elapsed

\* ------------------------------------------------------ _batch_processor
\* Remaining with timeout = BATCH_TIMEOUT_MS, the division by 1000.0 forgotten
RemainingMilliseconds == BATCH_TIMEOUT * 1000 - elapsed

\* remaining = timeout - elapsed
Remaining == BATCH_TIMEOUT - elapsed

\* Collecting with the bound of the loop off by one
CollectingOneMore == Len(batch_items) <= BATCH_SIZE

\* while len(batch_items) < BATCH_SIZE
Collecting == Len(batch_items) < BATCH_SIZE

\* if remaining <= 0 and len(batch_items) > 0: break
TimerExpired == Remaining <= 0 /\ Len(batch_items) > 0

\* request_queue.get(timeout=...) raises queue.Empty: the queue stayed empty
\* until start_time + timeout (a 1 ms poll ends within the tick)
GetTimedOut == request_queue = <<>> /\ Remaining <= 0

\* the top of `while True`: a new batch, start_time = time.time()
AggOuterEnabled == apc = "outer"

\* AggOuter with `batch_items = []` left out of the loop body: the items of the
\* previous batch stay in the list
AggOuterKeepBatch ==
    /\ AggOuterEnabled
    /\ batch_items' = batch_items
    /\ elapsed' = 0
    /\ apc' = "collect"
    /\ UNCHANGED <<cfgVars, restVars, now, request_queue, response_dict, batch_lock, running,
                   callerVars, results, idx, age, batches, served>>

AggOuter ==
    /\ AggOuterEnabled
    /\ batch_items' = <<>>
    /\ elapsed' = 0
    /\ apc' = "collect"
    /\ UNCHANGED <<cfgVars, restVars, now, request_queue, response_dict, batch_lock, running,
                   callerVars, results, idx, age, batches, served>>

\* item = request_queue.get(...) returns an item, appended to the batch
AggGetEnabled ==
    /\ apc = "collect"
    /\ Collecting
    /\ ~TimerExpired
    /\ request_queue # <<>>

\* the batch thread is blocked inside request_queue.get(timeout=remaining):
\* the queue is empty and the timeout of the call is not over
AggGetWaiting ==
    /\ apc = "collect"
    /\ Collecting
    /\ ~TimerExpired
    /\ request_queue = <<>>
    /\ ~GetTimedOut

\* AggGet on a queue that hands out its newest item first (queue.LifoQueue)
AggGetNewest ==
    /\ AggGetEnabled
    /\ batch_items' = Append(batch_items, request_queue[Len(request_queue)])
    /\ request_queue' = SubSeq(request_queue, 1, Len(request_queue) - 1)
    /\ age' = IF batch_items = <<>> THEN 0 ELSE age
    /\ UNCHANGED <<cfgVars, restVars, now, response_dict, batch_lock, running, callerVars,
                   apc, elapsed, results, idx, batches, served>>

AggGet ==
    /\ AggGetEnabled
    /\ batch_items' = Append(batch_items, Head(request_queue))
    /\ request_queue' = Tail(request_queue)
    /\ age' = IF batch_items = <<>> THEN 0 ELSE age
    /\ UNCHANGED <<cfgVars, restVars, now, response_dict, batch_lock, running, callerVars,
                   apc, elapsed, results, idx, batches, served>>

\* `if batch_items:` the batch is passed to _detect_batch
Flush ==
    /\ batch_items # <<>>
    /\ apc' = "exec"
    /\ running' = running \cup {AGG}
    /\ batches' = Append(batches, [i \in 1..Len(batch_items) |-> batch_items[i].event])
    /\ age' = 0
    /\ UNCHANGED <<cfgVars, restVars, now, request_queue, response_dict, batch_lock,
                   callerVars, batch_items, elapsed, results, idx, served>>

\* the collecting loop ends: the batch holds BATCH_SIZE items
AggBatchFullEnabled == apc = "collect" /\ ~Collecting

AggBatchFull == AggBatchFullEnabled /\ Flush

\* the collecting loop ends: break at line 206
AggTimerBreakEnabled == apc = "collect" /\ Collecting /\ TimerExpired

AggTimerBreak == AggTimerBreakEnabled /\ Flush

\* the collecting loop ends: queue.Empty with a non-empty batch, break at line 214
\* (with an empty batch the loop continues: nothing changes)
AggEmptyBreakEnabled ==
    apc = "collect" /\ Collecting /\ GetTimedOut /\ Len(batch_items) > 0

AggEmptyBreak == AggEmptyBreakEnabled /\ Flush

\* _detect_batch(batch_images) returns
AggExecReturn ==
    /\ apc = "exec"
    /\ running' = running \ {AGG}
    /\ results' = DetectBatch([i \in 1..Len(batch_items) |-> batch_items[i].image])
    /\ idx' = 1
    /\ apc' = "dist_lock"
    /\ UNCHANGED <<cfgVars, restVars, now, request_queue, response_dict, batch_lock,
                   callerVars, batch_items, elapsed, age, batches, served>>

\* AggExecRaise without the try/except around _detect_batch: the exception
\* ends the batch thread
AggExecRaiseUncaught ==
    /\ apc = "exec"
    /\ running' = running \ {AGG}
    /\ idx' = 0
    /\ apc' = "dead"
    /\ UNCHANGED <<cfgVars, restVars, now, request_queue, response_dict, batch_lock,
                   callerVars, batch_items, elapsed, results, age, batches, served>>

\* AggExecRaise with an except branch that only logs the error: the events of
\* the batch are not set
AggExecRaiseLogOnly ==
    /\ apc = "exec"
    /\ running' = running \ {AGG}
    /\ idx' = 0
    /\ apc' = "outer"
    /\ UNCHANGED <<cfgVars, restVars, now, request_queue, response_dict, batch_lock,
                   callerVars, batch_items, elapsed, results, age, batches, served>>

\* _detect_batch(batch_images) raises: the except branch
AggExecRaise ==
    /\ apc = "exec"
    /\ running' = running \ {AGG}
    /\ idx' = 1
    /\ apc' = "fail_set"
    /\ UNCHANGED <<cfgVars, restVars, now, request_queue, response_dict, batch_lock,
                   callerVars, batch_items, elapsed, results, age, batches, served>>

\* with batch_lock: (line 225) the lock is acquired
AggAcquireEnabled == apc = "dist_lock" /\ batch_lock = FREE

AggAcquire ==
    /\ AggAcquireEnabled
    /\ batch_lock' = AGG
    /\ apc' = "dist_write"
    /\ UNCHANGED <<cfgVars, restVars, now, request_queue, response_dict, running, callerVars,
                   batch_items, elapsed, results, idx, age, batches, served>>

\* results[i] of `for i, item in enumerate(batch_items)`
ResultAt(i) == results[i]

\* response_dict[request_id] = results[i], the lock released
AggWriteEnabled == apc = "dist_write"

AggWrite ==
    /\ AggWriteEnabled
    /\ response_dict' = Store(batch_items[idx].request_id, ResultAt(idx))
    /\ batch_lock' = FREE
    /\ apc' = "dist_set"
    /\ UNCHANGED <<cfgVars, restVars, now, request_queue, running, callerVars,
                   batch_items, elapsed, results, idx, age, batches, served>>

\* the handler is inside event_flag.wait(timeout=30) and its 30 s are not over
StillWaiting(c) == pc[c] = "wait" /\ waited[c] < WAIT_TIMEOUT

\* LoopNext of a batch thread that returns after its first batch instead of
\* going back to the top of `while True`
LoopNextOnce(again) ==
    IF idx < Len(batch_items)
    THEN idx' = idx + 1 /\ apc' = again
    ELSE idx' = 0 /\ apc' = "returned"

\* the next position of a loop over batch_items after its item idx
LoopNext(again) ==
    IF idx < Len(batch_items)
    THEN idx' = idx + 1 /\ apc' = again
    ELSE idx' = 0 /\ apc' = "outer"

\* item['event'].set() of the distributing loop (line 229)
AggSetEnabled == apc = "dist_set"

AggSet ==
    /\ AggSetEnabled
    /\ event_flag' = [event_flag EXCEPT ![batch_items[idx].event] = TRUE]
    /\ served' = [served EXCEPT ![batch_items[idx].event] =
                      IF StillWaiting(batch_items[idx].event) THEN "result" ELSE "late"]
    /\ LoopNext("dist_lock")
    /\ UNCHANGED <<cfgVars, restVars, now, request_queue, response_dict, batch_lock, running,
                   pc, request_id, waited, via, got, response,
                   batch_items, elapsed, results, age, batches>>

\* item['event'].set() of the except branch (lines 234-235)
AggFailSetEnabled == apc = "fail_set"

\* AggFailSet of a batch thread that retries a failed batch: the item is put
\* back on the queue instead of its event being set
AggFailSetRequeue ==
    /\ AggFailSetEnabled
    /\ request_queue' = Append(request_queue, batch_items[idx])
    /\ LoopNext("fail_set")
    /\ UNCHANGED <<cfgVars, restVars, now, response_dict, batch_lock, running, callerVars,
                   batch_items, elapsed, results, age, batches, served>>

AggFailSet ==
    /\ AggFailSetEnabled
    /\ event_flag' = [event_flag EXCEPT ![batch_items[idx].event] = TRUE]
    /\ served' = [served EXCEPT ![batch_items[idx].event] =
                      IF StillWaiting(batch_items[idx].event) THEN "failure" ELSE "late"]
    /\ LoopNext("fail_set")
    /\ UNCHANGED <<cfgVars, restVars, now, request_queue, response_dict, batch_lock, running,
                   pc, request_id, waited, via, got, response,
                   batch_items, elapsed, results, age, batches>>

\* ------------------------------------------------------------------ time
\* a thread that can take a step that takes no time
Urgent ==
    \/ \E c \in Callers :
          PutEnabled(c) \/ PutFullEnabled(c) \/ WaitEnabled(c) \/ PopEnabled(c)
    \/ AggOuterEnabled \/ AggGetEnabled \/ AggBatchFullEnabled
    \/ AggTimerBreakEnabled \/ AggEmptyBreakEnabled \/ AggAcquireEnabled
    \/ AggWriteEnabled \/ AggSetEnabled \/ AggFailSetEnabled

Min(a, b) == IF a <= b THEN a ELSE b

\* one tick passes: the clock and the elapsed times of the blocked calls advance
Tick ==
    /\ ~Urgent
    /\ now' = Min(now + 1, MaxTime)
    /\ waited' = [c \in Callers |->
                     IF pc[c] \in {"put", "wait"}
                     THEN Min(waited[c] + 1, WAIT_TIMEOUT + 1) ELSE waited[c]]
    /\ elapsed' = IF apc = "collect" THEN Min(elapsed + 1, BATCH_TIMEOUT) ELSE elapsed
    /\ age' = IF apc = "collect" /\ batch_items # <<>>
              THEN Min(age + 1, BATCH_TIMEOUT + 1) ELSE age
    /\ UNCHANGED <<cfgVars, restVars, request_queue, response_dict, batch_lock, running,
                   pc, request_id, event_flag, via, got, response,
                   apc, batch_items, results, idx, batches, served>>

\* ------------------------------------------------------------------ Next
\* the steps of a handler whose request has arrived
HandlerRunning(c) ==
    \/ Put(c) \/ PutFull(c) \/ Wait(c) \/ Pop(c)
    \/ SingleReturn(c) \/ SingleRaise(c)

Handler(c) == Submit(c) \/ HandlerRunning(c)

BatchProcessor ==
    \/ AggOuter \/ AggGet \/ AggBatchFull \/ AggTimerBreak \/ AggEmptyBreak
    \/ AggExecReturn \/ AggExecRaise \/ AggAcquire \/ AggWrite \/ AggSet
    \/ AggFailSet

Next == (\E c \in Callers : Handler(c)) \/ BatchProcessor \/ Tick

Spec == Init /\ [][Next]_vars

SpecPartial == InitPartial /\ [][Next]_vars

SpecAnyCapacity == InitAnyCapacity /\ [][Next]_vars

\* the steps of the threads that are running: every step but the arrival of
\* requests
Progress == (\E c \in Callers : HandlerRunning(c)) \/ BatchProcessor \/ Tick

\* the process with requests that may be invalid; threads are scheduled,
\* executions end and time passes; requests need not arrive
NextOutcome == Next \/ (\E c \in Callers : DecodeRaise(c))

SpecOutcome == Init /\ [][NextOutcome]_vars /\ WF_vars(Progress)

\* the overload scenario: the NCallers requests arrive at the same instant,
\* whenever that is, and no other request does; threads are scheduled,
\* executions end and time passes
NextOverload == SubmitAll \/ Progress

SpecOverload == InitOverload /\ [][NextOverload]_vars /\ WF_vars(Progress)

\* the process with a model whose every execution raises: no _detect_single
\* and no _detect_batch returns, so the distributing loop is never entered
HandlerFail(c) ==
    \/ Submit(c) \/ Put(c) \/ PutFull(c) \/ Wait(c) \/ Pop(c) \/ SingleRaise(c)

BatchProcessorFail ==
    \/ AggOuter \/ AggGet \/ AggBatchFull \/ AggTimerBreak \/ AggEmptyBreak
    \/ AggExecRaise \/ AggFailSet

\* the steps of the threads that are running in that process: every step but
\* the arrival of a request
ProgressFail ==
    \/ \E c \in Callers :
          Put(c) \/ PutFull(c) \/ Wait(c) \/ Pop(c) \/ SingleRaise(c)
    \/ BatchProcessorFail
    \/ Tick

NextFail == (\E c \in Callers : HandlerFail(c)) \/ BatchProcessorFail \/ Tick

\* threads are scheduled, executions end and time passes; requests need not
\* arrive
SpecFail == Init /\ [][NextFail]_vars /\ WF_vars(ProgressFail)


\* either file deployed with dynamic batching, requests of every kind
InitKinds ==
    \E v \in {"optimized", "batch"} :
        /\ StartService(MaxBatchSize, QueueMaxsize(v))
        /\ variant = v
        /\ kind = [c \in Callers |-> "none"]
        /\ TesterOff

\* the steps of the threads with a model whose every execution returns
HandlerReturn(c) ==
    \/ Put(c) \/ PutFull(c) \/ Wait(c) \/ Pop(c) \/ SingleReturn(c)

BatchProcessorReturn ==
    \/ AggOuter \/ AggGet \/ AggBatchFull \/ AggTimerBreak \/ AggEmptyBreak
    \/ AggExecReturn \/ AggAcquire \/ AggWrite \/ AggSet

NextKinds ==
    \/ \E c \in Callers : \E k \in Kinds : HandleRequest(c, k)
    \/ \E c \in Callers : HandlerReturn(c)
    \/ BatchProcessorReturn
    \/ Tick

SpecKinds == InitKinds /\ [][NextKinds]_vars

\* ------------------------------------------------------------ LoadTester
\* benchmark/faas_benchmark/tester.py.  The tasks of the event loop run one at
\* a time: a step of a task is what it does between two awaits that suspend
\* it.  `async with self._lock` never suspends, because no task awaits while
\* it holds the lock.

\* self.results.append(result) on deque(maxlen=...): the oldest result is
\* dropped once the deque is full
AppendMaxlen(q, x) ==
    IF Len(q) < RESULTS_MAXLEN THEN Append(q, x) ELSE Append(Tail(q), x)

\* `if self.config.duration:` None and 0 are false
DurationSet == duration # <<>> /\ duration # <<0>>

\* sum(1 for r in results_list if r.success)
RECURSIVE Successful(_)
Successful(rs) ==
    IF rs = <<>> THEN 0 ELSE (IF Head(rs) THEN 1 ELSE 0) + Successful(Tail(rs))

\* _summarize_results: the counts of the BenchmarkResult
SummarizeResults(rs) ==
    [total_requests |-> Len(rs),
     successful_requests |-> Successful(rs),
     failed_requests |-> Len(rs) - Successful(rs)]

\* run has created its tasks and awaits self._stop_event.wait() (line 146);
\* the warmup requests are not recorded
TesterStart(c, n, d) ==
    /\ concurrency = c
    /\ total_requests = n
    /\ duration = d
    /\ tester_results = <<>>
    /\ request_count = 0
    /\ stop_event = FALSE
    /\ wpc = [w \in Workers |-> IF w <= c THEN "created" ELSE "none"]
    /\ dpc = IF d # <<>> /\ d # <<0>> THEN "created" ELSE "none"
    /\ rpc = "waiting"
    /\ slept = 0
    /\ summary = NoSummary
    /\ stopped_by = {}

\* the service plays no part in a run of the LoadTester
serviceVars == <<cfgVars, variant, kind, now, request_queue, response_dict,
                 batch_lock, running, callerVars, aggVars>>

InitTester ==
    /\ StartService(1, QueueCapacity)
    /\ variant = "optimized"
    /\ kind = [c \in Callers |-> "none"]
    /\ \E c \in 1..MaxConcurrency : \E n \in 1..MaxTotal :
         \E d \in {<<>>} \cup {<<k>> : k \in 0..MaxDuration} : TesterStart(c, n, d)

\* _worker runs for the first time: `while not self._stop_event.is_set()`,
\* then the request is sent
WorkerStart(w) ==
    /\ wpc[w] = "created"
    /\ wpc' = [wpc EXCEPT ![w] = IF stop_event THEN "returned" ELSE "request"]
    /\ UNCHANGED <<serviceVars, concurrency, total_requests, duration, tester_results,
                   request_count, stop_event, dpc, rpc, slept, summary, stopped_by>>

\* LimitReached without the test of config.duration
LimitReachedAnyMode(count) == count >= total_requests

\* the request count has reached the limit (lines 68-71)
LimitReached(count) == duration = <<>> /\ count >= total_requests

\* _make_request returns a RequestResult with success = ok: the worker
\* records it, counts it, sets the stop event at the limit, and otherwise
\* tests the stop event and sends its next request (lines 60-73)
WorkerComplete(w, ok) ==
    /\ wpc[w] = "request"
    /\ tester_results' = AppendMaxlen(tester_results, ok)
    /\ request_count' = Min(request_count + 1, MaxCompleted)
    /\ IF LimitReached(request_count + 1)
       THEN /\ stop_event' = TRUE
            /\ stopped_by' = stopped_by \cup {"worker"}
            /\ wpc' = [wpc EXCEPT ![w] = "returned"]
       ELSE /\ wpc' = [wpc EXCEPT ![w] = IF stop_event THEN "returned" ELSE "request"]
            /\ UNCHANGED <<stop_event, stopped_by>>
    /\ UNCHANGED <<serviceVars, concurrency, total_requests, duration,
                   dpc, rpc, slept, summary>>

\* _duration_controller runs for the first time: asyncio.sleep(duration)
ControllerStart ==
    /\ dpc = "created"
    /\ dpc' = "sleeping"
    /\ UNCHANGED <<serviceVars, concurrency, total_requests, duration, tester_results,
                   request_count, stop_event, wpc, rpc, slept, summary, stopped_by>>

\* asyncio.sleep(self.config.duration) is over
SleepOver == duration # <<>> /\ slept >= duration[1]

\* the sleep of _duration_controller is over: self._stop_event.set()
ControllerWake ==
    /\ dpc = "sleeping"
    /\ SleepOver
    /\ stop_event' = TRUE
    /\ stopped_by' = stopped_by \cup {"controller"}
    /\ dpc' = "returned"
    /\ UNCHANGED <<serviceVars, concurrency, total_requests, duration, tester_results,
                   request_count, wpc, rpc, slept, summary>>

\* a tick passes while the controller sleeps; the tasks that were created run
\* first
TesterTick ==
    /\ dpc = "sleeping"
    /\ ~SleepOver
    /\ \A w \in Workers : wpc[w] # "created"
    /\ slept' = slept + 1
    /\ UNCHANGED <<serviceVars, concurrency, total_requests, duration, tester_results,
                   request_count, stop_event, wpc, dpc, rpc, summary, stopped_by>>

\* a task that task.cancel() ends: it has not returned
Cancelled(p) == IF p \in {"created", "request", "sleeping"} THEN "cancelled" ELSE p

\* run wakes from self._stop_event.wait() and cancels its tasks (lines 146-151)
RunCancel ==
    /\ rpc = "waiting"
    /\ stop_event
    /\ wpc' = [w \in Workers |-> Cancelled(wpc[w])]
    /\ dpc' = Cancelled(dpc)
    /\ rpc' = "gather"
    /\ UNCHANGED <<serviceVars, concurrency, total_requests, duration, tester_results,
                   request_count, stop_event, slept, summary, stopped_by>>

\* asyncio.gather returns and run returns the summary (lines 153-161)
RunReturn ==
    /\ rpc = "gather"
    /\ summary' = SummarizeResults(tester_results)
    /\ rpc' = "returned"
    /\ UNCHANGED <<serviceVars, concurrency, total_requests, duration, tester_results,
                   request_count, stop_event, wpc, dpc, slept, stopped_by>>

Worker(w) == WorkerStart(w) \/ \E ok \in BOOLEAN : WorkerComplete(w, ok)

NextTester ==
    \/ \E w \in Workers : Worker(w)
    \/ ControllerStart
    \/ ControllerWake
    \/ TesterTick
    \/ RunCancel
    \/ RunReturn

SpecTester == InitTester /\ [][NextTester]_vars

\* every task of the event loop that can run does run, and time passes
SpecTesterFair ==
    /\ SpecTester
    /\ \A w \in Workers : WF_vars(Worker(w))
    /\ WF_vars(ControllerStart) /\ WF_vars(ControllerWake) /\ WF_vars(TesterTick)
    /\ WF_vars(RunCancel) /\ WF_vars(RunReturn)

\* ---------------------------------------------------------------- claims
\* C1: single-flight.  In every interleaving of the handler threads and the
\* batch thread, at most one model execution (_detect_batch of a flush,
\* _detect_single of a fallback or of the direct path) is in progress.
C1_SingleFlight == Cardinality(running) <= 1

\* C2: batch order preservation and correlation.  The result the batch thread
\* has just stored for item i (and not yet signalled) is the result of that
\* item's image, and every handler that returns a result taken from
\* response_dict returns the result computed for its own image.
C2_OwnResult ==
    /\ apc = "dist_set" /\ batch_items[idx].request_id \in DOMAIN response_dict
           => response_dict[batch_items[idx].request_id] = Detect(batch_items[idx].image)
    /\ \A c \in Callers :
           pc[c] = "done" /\ got[c] = "table"
               => response[c] = MakeResponse(Detect(Image(c)))

\* C3: liveness under failure.  When every model execution raises, every
\* submitted request is eventually answered, and its answer is the error
\* response: no handler waits forever.
C3_FailingAdapterAnswered ==
    \A c \in Callers :
        (pc[c] # "idle") ~> (pc[c] = "done" /\ response[c] = MakeErrorResponse)

\* a request whose batch failed was answered with the error response
C3_Witness ==
    \E c \in Callers :
        /\ pc[c] = "done" /\ via[c] = "queued" /\ event_flag[c]
        /\ response[c] = MakeErrorResponse

\* C4: timeout fallback.  A handler whose item was accepted by the queue
\* waits on its event for at most WAIT_TIMEOUT; when its wait has ended and
\* response_dict holds no result under its request_id, it calls the model on
\* its own image, and what it answers is the outcome of that call.
C4_TimeoutFallback ==
    /\ [](\A c \in Callers : pc[c] = "wait" => waited[c] <= WAIT_TIMEOUT)
    /\ [][\A c \in Callers :
            pc[c] = "pop" /\ pc'[c] # "pop" /\ Lookup(request_id[c]) = None
                => pc'[c] = "single" /\ c \in running']_vars
    /\ [](\A c \in Callers :
            pc[c] = "done" /\ via[c] = "queued" /\ got[c] # "table"
                => response[c] = IF got[c] = "single"
                                 THEN MakeResponse(Detect(Image(c)))
                                 ELSE MakeErrorResponse)

\* a queued request whose event was never set was answered by its own call
C4_Witness ==
    \E c \in Callers :
        /\ pc[c] = "done" /\ via[c] = "queued" /\ ~event_flag[c]
        /\ got[c] = "single"

\* C5: backpressure.  A handler putting on a full queue blocks for at most
\* PUT_TIMEOUT; it leaves the put either with its item on the queue or, the
\* queue still full after PUT_TIMEOUT, by calling the model on its own image;
\* a rejected request is answered with the result of that call whenever the
\* call returns, and with an error only when the call itself raises.
C5_Backpressure ==
    /\ [](\A c \in Callers : pc[c] = "put" => waited[c] <= PUT_TIMEOUT)
    /\ [][\A c \in Callers :
            pc[c] = "put" /\ pc'[c] # "put"
                => \/ /\ pc'[c] = "wait"
                      /\ request_queue' = Append(request_queue, Item(c))
                   \/ /\ QueueFull /\ waited[c] >= PUT_TIMEOUT
                      /\ pc'[c] = "single" /\ c \in running']_vars
    /\ [](\A c \in Callers :
            pc[c] = "done" /\ via[c] = "full"
                => response[c] = IF got[c] = "single"
                                 THEN MakeResponse(Detect(Image(c)))
                                 ELSE MakeErrorResponse)

\* a request rejected by the full queue was answered with its own result
C5_Witness ==
    \E c \in Callers :
        /\ pc[c] = "done" /\ via[c] = "full"
        /\ response[c] = MakeResponse(Detect(Image(c)))

\* C6: bounded staleness.  While the batch thread is collecting a batch that
\* has a first item, no more than BATCH_TIMEOUT has passed since that item was
\* dequeued: the batch is passed to _detect_batch by then, full or not.
C6_BoundedStaleness ==
    apc = "collect" /\ batch_items # <<>> => age <= BATCH_TIMEOUT

\* a batch that is not full has been collecting for BATCH_TIMEOUT
C6_Witness ==
    /\ apc = "collect" /\ batch_items # <<>> /\ Collecting
    /\ age = BATCH_TIMEOUT

\* the requests that have arrived
Arrived == {c \in Callers : pc[c] # "idle"}

\* all the requests that have arrived were submitted at tick t (a tick the
\* clock still tells from the next)
ArrivedAt(t) ==
    /\ t < MaxTime
    /\ Arrived # {}
    /\ \A c \in Arrived : request_id[c] = RequestId(t, c)

\* C7: partial-batch scenario.  With BATCH_SIZE = B and k < B requests
\* submitted at the same instant to the idle batch thread and no further
\* arrival, the batch thread calls _detect_batch exactly once, with a batch of
\* the k requests.
C7_PartialBatch ==
    \A t \in 0..MaxTime :
        ArrivedAt(t) /\ Cardinality(Arrived) < BATCH_SIZE /\ batches # <<>>
            => Len(batches) = 1 /\ Len(batches[1]) = Cardinality(Arrived)

\* C8: full-batch scenario.  With BATCH_SIZE = B and B requests submitted
\* within an interval much shorter than BATCH_TIMEOUT to the idle batch thread,
\* the batch thread calls _detect_batch exactly once, with a batch of the B
\* requests, as soon as the B-th item has arrived.
C8_FullBatch ==
    \A t \in 0..MaxTime :
        /\ USE_DYNAMIC_BATCH /\ ArrivedAt(t)
        /\ Cardinality(Arrived) = BATCH_SIZE /\ batches # <<>>
        => Len(batches) = 1 /\ Len(batches[1]) = BATCH_SIZE

\* the requests that entered by the path p
Via(p) == {c \in Callers : via[c] = p}

\* the NCallers requests, more than the queue holds, have arrived (in
\* SpecOverload: at the same instant) and each has left its put
Overload ==
    /\ USE_DYNAMIC_BATCH /\ MAX_QUEUE_SIZE > 0 /\ NCallers > MAX_QUEUE_SIZE
    /\ Arrived = Callers
    /\ \A c \in Callers : via[c] # "none"

\* C9 as stated: of N > C simultaneous submissions exactly C take the queued
\* path and exactly N - C the fallback path.
C9_ExactSplit ==
    Overload => /\ Cardinality(Via("queued")) = MAX_QUEUE_SIZE
                /\ Cardinality(Via("full")) = NCallers - MAX_QUEUE_SIZE

\* C9, amended: of N > C simultaneous submissions at least C take the queued
\* path and at most N - C the fallback path, and every request that has
\* arrived is answered.
C9_Overload ==
    /\ [](Overload => /\ Cardinality(Via("queued")) >= MAX_QUEUE_SIZE
                       /\ Cardinality(Via("full")) <= NCallers - MAX_QUEUE_SIZE
                       /\ Via("queued") \cup Via("full") = Callers)
    /\ \A c \in Callers : (pc[c] # "idle") ~> (pc[c] = "done")

\* N simultaneous requests are all answered, one of them after a rejection
C9_Witness ==
    /\ Overload /\ Via("full") # {}
    /\ \A c \in Callers : pc[c] = "done"

\* C10: failure containment.  When the batch thread is back at the top of its
\* loop, about to collect the next batch, the event of every item of the batch
\* it has just processed is set, whether _detect_batch returned or raised.
C10_FailureContainment ==
    apc = "outer" =>
        \A i \in 1..Len(batch_items) : event_flag[batch_items[i].event]

\* the first call of _detect_batch, for a batch of two, has raised (there are
\* no results) and the next collection is about to start
C10_Witness ==
    /\ apc = "outer" /\ Len(batch_items) = 2 /\ results = <<>>
    /\ \A i \in 1..2 : event_flag[batch_items[i].event]

\* C11: no automatic retry.  A request whose batch made _detect_batch raise
\* while it was waiting is answered with the error response, and its image is
\* not passed to the model again: its handler does not enter _detect_single.
C11_NoRetry ==
    /\ [][\A c \in Callers :
            served[c] = "failure" /\ c \notin running => c \notin running']_vars
    /\ [](\A c \in Callers :
            served[c] = "failure" /\ pc[c] = "done"
                => response[c] = MakeErrorResponse)

\* the item of handler c was passed to _detect_batch in some batch
Flushed(c) ==
    \E i \in 1..Len(batches) : \E j \in 1..Len(batches[i]) : batches[i][j] = c

\* C12: the batch thread survives failed batches.  With every _detect_batch
\* raising, every item admitted to the queue, however many batches have failed
\* before, is still dequeued and passed to _detect_batch.
C12_AggregatorSurvives ==
    \A c \in Callers : (via[c] = "queued") ~> Flushed(c)

\* an item was flushed in a batch that followed a failed batch
C12_Witness ==
    /\ Len(batches) >= 2
    /\ \E c \in Callers : served[c] = "failure"
    /\ \E c \in Callers : served[c] = "none" /\ via[c] = "queued" /\ Flushed(c)

\* C13: correlator cleanup.  response_dict holds no entry under the
\* request_id of a request whose handler has returned, whether it returned a
\* result of the table or, after a timeout, the result of its own call.
C13_Cleanup ==
    \A c \in Callers :
        pc[c] = "done" => request_id[c] \notin DOMAIN response_dict

\* C14: exactly-once delivery.  For a request that is still waiting when a
\* batch that succeeded serves it, the result is written under a request_id
\* that has no entry yet, and the handler returns that result of the table,
\* the one computed for its own image.
C14_ExactlyOnce ==
    /\ [][apc = "dist_write" /\ StillWaiting(batch_items[idx].event)
            => batch_items[idx].request_id \notin DOMAIN response_dict]_vars
    /\ [](\A c \in Callers :
            served[c] = "result" /\ pc[c] = "done"
                => /\ got[c] = "table"
                   /\ response[c] = MakeResponse(Detect(Image(c))))

\* C15: batch-size invariant.  Every batch the batch thread has passed or is
\* passing to _detect_batch holds at least 1 and at most BATCH_SIZE items.
C15_BatchSize ==
    /\ \A i \in 1..Len(batches) : Len(batches[i]) \in 1..BATCH_SIZE
    /\ apc = "exec" => Len(batch_items) \in 1..BATCH_SIZE

\* a full batch and a batch that is not full have been passed to _detect_batch
C15_Witness ==
    /\ \E i \in 1..Len(batches) : Len(batches[i]) = BATCH_SIZE
    /\ \E i \in 1..Len(batches) : Len(batches[i]) < BATCH_SIZE

\* C16: bounded intake queue.  For every MAX_QUEUE_SIZE >= 0 the
\* request_queue never holds more than MAX_QUEUE_SIZE items, and a put on a
\* queue that holds MAX_QUEUE_SIZE items does not add its item.
C16_BoundedQueue ==
    /\ [](Len(request_queue) <= MAX_QUEUE_SIZE)
    /\ [][\A c \in Callers :
            pc[c] = "put" /\ Len(request_queue) >= MAX_QUEUE_SIZE
                => pc'[c] # "wait"]_vars

\* C17: with BATCH_SIZE = 1 there is no aggregation.  No batch thread runs,
\* no request is put on the queue or waits on an event, and a handler calls
\* the model once, itself, when its request arrives, and answers with the
\* outcome of that call.
C17_DirectAtOne ==
    /\ [](BATCH_SIZE = 1 =>
            /\ apc = "off" /\ request_queue = <<>> /\ batches = <<>>
            /\ \A c \in Callers :
                   /\ pc[c] \in {"idle", "single", "done"}
                   /\ pc[c] = "single" <=> c \in running
                   /\ pc[c] = "done" =>
                          via[c] = "direct" /\ got[c] \in {"single", "error"})
    /\ [][BATCH_SIZE = 1 =>
            \A c \in Callers :
                c \in running' /\ c \notin running => pc[c] = "idle"]_vars

\* with BATCH_SIZE = 1 a request was answered with the result of its own call
C17_Witness ==
    /\ BATCH_SIZE = 1
    /\ \E c \in Callers :
           /\ pc[c] = "done" /\ got[c] = "single"
           /\ response[c] = MakeResponse(Detect(Image(c)))

\* a request has arrived and its handler has not returned
Pending == {c \in Callers : pc[c] \notin {"idle", "done"}}

\* C18: definite outcome.  Every call of handler returns: whenever requests
\* are being handled, a moment comes at which each of them has been answered;
\* and an answer is either a success carrying a result or the error response,
\* whatever failed (decoding, queueing, the batch, the handler's own call).
C18_DefiniteOutcome ==
    /\ (Pending # {}) ~> (Pending = {})
    /\ [](\A c \in Callers :
            pc[c] = "done" =>
                \/ response[c] = MakeErrorResponse
                \/ \E k \in Callers : response[c] = MakeResponse(Detect(Image(k))))

\* an invalid request, a request served by a batch and a request whose batch
\* and whose own call both failed have all been answered
C18_Witness ==
    /\ \E c \in Callers : pc[c] = "done" /\ via[c] = "invalid"
    /\ \E c \in Callers : pc[c] = "done" /\ got[c] = "table"
    /\ \E c \in Callers :
           pc[c] = "done" /\ served[c] = "failure" /\ got[c] = "error"

\* C19: exclusive ownership of the model.  With dynamic batching enabled every
\* model execution runs on the batch thread: no handler thread calls
\* _detect_single or _detect_batch itself.
C19_ExclusiveOwnership ==
    USE_DYNAMIC_BATCH => running \subseteq {AGG}

\* C20: the flush timer is armed by the first item.  The batch thread passes
\* a batch to _detect_batch only when the batch is full or BATCH_TIMEOUT has
\* passed since its first item was dequeued, however long the thread had been
\* idle before.
C20_TimerArmedByFirstItem ==
    [][apc = "collect" /\ apc' = "exec"
          => Len(batch_items) = BATCH_SIZE \/ age >= BATCH_TIMEOUT]_vars

\* the positions of the batches passed to _detect_batch that hold the item of c
Flushes(c) ==
    {p \in (1..Len(batches)) \X (1..MaxBatchSize) :
        p[2] <= Len(batches[p[1]]) /\ batches[p[1]][p[2]] = c}

\* C21: serialized flush.  The batch thread passes every collected batch to
\* _detect_batch exactly once (no item is in two of its calls), it is inside
\* _detect_batch exactly between the flush and the return or raise, and it takes
\* no item off the queue while that call is running: at most one call of the
\* batch thread is in flight.
C21_SerializedFlush ==
    /\ [](\A c \in Callers : Cardinality(Flushes(c)) <= 1)
    /\ [](AGG \in running <=> apc = "exec")
    /\ [][Len(batch_items') > Len(batch_items) \/ Len(request_queue') < Len(request_queue)
              => apc = "collect" /\ AGG \notin running /\ AGG \notin running']_vars
    /\ [][batches' # batches
              => /\ AGG \notin running /\ AGG \in running'
                 /\ Len(batches') = Len(batches) + 1
                 /\ batch_items' = batch_items]_vars

\* a second batch is inside _detect_batch while an item waits in the queue
C21_Witness ==
    Len(batches) >= 2 /\ apc = "exec" /\ request_queue # <<>>

\* C22: write before signal.  On a successful batch the result of an item is
\* in response_dict under its request_id when its event wakes the waiting
\* handler, and a handler woken by its event within the 30 s pops the result of
\* its own image.
C22_WriteBeforeSignal ==
    /\ [][\A c \in Callers :
            apc = "dist_set" /\ ~event_flag[c] /\ event_flag'[c] /\ StillWaiting(c)
                => Lookup(request_id[c]) = Detect(Image(c))]_vars
    /\ [][\A c \in Callers :
            pc[c] = "pop" /\ pc'[c] # "pop" /\ served[c] = "result"
                => Lookup(request_id[c]) = Detect(Image(c))]_vars

\* C23: narrow critical section.  batch_lock is held only by a handler at its
\* pop or by the batch thread at its write; the holder is not inside the model,
\* not in event_flag.wait and not in request_queue.get; every change of
\* response_dict happens under the lock and ends with its release; no time
\* passes while the lock is held, so no thread waits for it for long.
C23_NarrowCriticalSection ==
    /\ [](batch_lock \in Callers => pc[batch_lock] = "pop")
    /\ [](batch_lock = AGG => apc = "dist_write")
    /\ [](batch_lock \notin running)
    /\ [][response_dict' # response_dict
              => batch_lock # FREE /\ batch_lock' = FREE]_vars
    /\ [][batch_lock # FREE
              => /\ batch_lock' \in {batch_lock, FREE}
                 /\ ~Tick]_vars

\* the batch thread wants the lock for its write while a handler holds it for
\* its pop
C23_Witness ==
    batch_lock \in Callers /\ apc = "dist_lock"

\* C24: request identifiers are unique.  Two requests that are pending at the
\* same time with a request_id have different request_ids.
C24_UniqueRequestIds ==
    \A c \in Pending : \A d \in Pending :
        c # d /\ request_id[c] # <<>> /\ request_id[d] # <<>>
            => request_id[c] # request_id[d]

\* the items of a sequence of batches, in the order of the batches
RECURSIVE Flatten(_)
Flatten(bs) == IF bs = <<>> THEN <<>> ELSE Head(bs) \o Flatten(Tail(bs))

\* the callers whose items were admitted to the queue, in the order in which
\* the batch thread has handled or will handle them: the batches passed to
\* _detect_batch, the batch being collected, the queue
ServiceOrder ==
    Flatten(batches)
        \o (IF apc = "collect"
            THEN [i \in 1..Len(batch_items) |-> batch_items[i].event] ELSE <<>>)
        \o [i \in 1..Len(request_queue) |-> request_queue[i].event]

\* C25: FIFO admission.  An admitted item joins the end of the service order
\* and no step of the batch thread changes that order: an item admitted
\* earlier is in an earlier batch, or at an earlier index of the same batch,
\* than an item admitted later.
C25_FifoAdmission ==
    [][\/ ServiceOrder' = ServiceOrder
       \/ \E c \in Callers :
             /\ pc[c] = "put" /\ pc'[c] = "wait"
             /\ ServiceOrder' = Append(ServiceOrder, c)]_vars

\* two items wait in the queue behind a batch already passed to the model
C25_Witness ==
    Len(request_queue) >= 2 /\ batches # <<>>

\* C26: non-blocking polls while collecting.  Once the batch holds an item the
\* batch thread is never blocked inside request_queue.get waiting for a
\* further item.
C26_NonBlockingPolls ==
    batch_items # <<>> => ~AggGetWaiting

\* C26, amended: while the batch holds an item the batch thread takes an
\* available item without waiting, and on an empty queue it blocks inside
\* request_queue.get only while time is left of BATCH_TIMEOUT since start_time:
\* time passes in the collecting loop only on an empty queue with the timer
\* not expired, and never more than BATCH_TIMEOUT after the first item.
C26_BlocksOnlyUntilTimeout ==
    /\ [][apc = "collect" /\ batch_items # <<>> /\ Tick
              => request_queue = <<>> /\ AggGetWaiting /\ elapsed < BATCH_TIMEOUT]_vars
    /\ [](apc = "collect" /\ batch_items # <<>> /\ request_queue # <<>>
              => ~AggGetWaiting /\ Urgent)
    /\ [](AggGetWaiting /\ batch_items # <<>> => age < BATCH_TIMEOUT)

\* the batch holds one item, the queue is empty and the batch thread is
\* blocked in get while another request is on its way
C26_Witness ==
    /\ AggGetWaiting /\ Len(batch_items) = 1
    /\ \E c \in Callers : pc[c] = "put"

\* handler c has called _detect_single itself
OwnCall(c) ==
    \/ pc[c] = "single"
    \/ got[c] \in {"single", "error"} /\ via[c] # "invalid"

\* the number of times the image of handler c was passed to the model
Executions(c) == Cardinality(Flushes(c)) + (IF OwnCall(c) THEN 1 ELSE 0)

\* C27: at most once per request.  The image of a request is passed to the
\* model at most once in total: inside one batch or by the handler's own
\* call, never both.
C27_AtMostOnce ==
    \A c \in Callers : Executions(c) <= 1

\* C27, amended: the image of a request is passed to the model at most once
\* inside a batch and at most once by its own handler, so at most twice; it
\* is passed twice only for a request that was admitted to the queue, and a
\* request that popped its result from the table made no call of its own.
C27_AtMostOncePerPath ==
    \A c \in Callers :
        /\ Cardinality(Flushes(c)) <= 1
        /\ Executions(c) <= 2
        /\ Executions(c) = 2 => via[c] = "queued"
        /\ got[c] = "table" => ~OwnCall(c)

\* a handler whose wait timed out while its batch was inside the model has
\* answered from its own call: its image was passed to the model twice
C27_Witness ==
    \E c \in Callers :
        pc[c] = "done" /\ served[c] = "late" /\ got[c] = "single" /\ Executions(c) = 2

\* the item of handler c is in the queue
Queued(c) == \E i \in 1..Len(request_queue) : request_queue[i].event = c

\* C28: eventual service.  With the batch thread scheduled and every call of
\* the model returning or raising, every item in the queue is eventually taken
\* off the queue and passed to _detect_batch in a batch.
C28_EventualService ==
    \A c \in Callers : Queued(c) ~> (~Queued(c) /\ Flushed(c))

\* all three requests were admitted and the last of them was passed to the
\* model in a later batch than the first
C28_Witness ==
    /\ \A c \in Callers : via[c] = "queued" /\ Flushed(c)
    /\ Len(batches) >= 2
    /\ request_queue = <<>>

\* C29: all-or-nothing batch outcome.  When _detect_batch raises, the batch
\* thread writes nothing to response_dict for the batch, and every handler of
\* the batch that its event wakes finds no result under its request_id and
\* calls _detect_single itself.
C29_AllOrNothing ==
    /\ [][\/ apc = "exec" /\ apc' = "fail_set"
          \/ apc = "fail_set" /\ idx' # idx
              => response_dict' = response_dict]_vars
    /\ [][\A c \in Callers :
            pc[c] = "pop" /\ pc'[c] # "pop" /\ served[c] = "failure"
                => Lookup(request_id[c]) = None /\ pc'[c] = "single"]_vars

\* C30: a rejected offer leaves no trace.  The step in which put gives up on
\* the full queue changes neither request_queue nor response_dict, and the
\* item of a rejected request is never in the queue, in the batch being
\* collected or in a batch passed to _detect_batch.
C30_RejectedLeavesNoTrace ==
    /\ [][\A c \in Callers :
            pc[c] = "put" /\ pc'[c] = "single"
                => request_queue' = request_queue /\ response_dict' = response_dict]_vars
    /\ [](\A c \in Callers :
            via[c] = "full"
                => /\ ~Queued(c)
                   /\ ~Flushed(c)
                   /\ \A i \in 1..Len(batch_items) : batch_items[i].event # c)

\* a rejected request has been answered, two batches have been passed to the
\* model and the batch thread is collecting again from an empty queue
C30_Witness ==
    /\ \E c \in Callers : via[c] = "full" /\ pc[c] = "done"
    /\ Len(batches) >= 2
    /\ request_queue = <<>> /\ apc = "collect"

\* C31: the intake queue of main_batch.py has no capacity bound.  With
\* main_batch.py deployed the queue is never full, no put is rejected (the
\* queue.Full branch of _process_with_batch is never taken), and the queue
\* grows with the number of requests waiting.
C31_UnboundedIntake ==
    variant = "batch" =>
        /\ ~QueueFull
        /\ \A c \in Callers : ~PutFullEnabled(c) /\ via[c] # "full"

\* with main_batch.py deployed every request of the bound waits in the queue:
\* more items than the capacity main_optimized.py is given
C31_Witness ==
    /\ variant = "batch"
    /\ Len(request_queue) = NCallers
    /\ NCallers > QueueCapacity

\* the requests the claim sends through the queue: 'image' in
\* main_optimized.py, 'image' and 'url' in main_batch.py
BatchedKind(c) ==
    \/ variant = "optimized" /\ kind[c] = "image"
    \/ variant = "batch" /\ kind[c] \in {"image", "url"}

\* C32: which requests are batched.  With dynamic batching enabled a request
\* of a batched kind gets a request_id and is offered to the queue; any other
\* request ('url' and 'images' in main_optimized.py, 'images' in
\* main_batch.py) gets no request_id, is never in the queue or in a batch,
\* never takes the lock of the result table, and the model is called in its
\* own handler thread.
C32_OnlyImageBatched ==
    \A c \in Callers :
        pc[c] # "idle" =>
            IF BatchedKind(c)
            THEN request_id[c] # <<>> /\ via[c] # "direct"
            ELSE /\ request_id[c] = <<>>
                 /\ via[c] = "direct"
                 /\ ~Queued(c) /\ ~Flushed(c)
                 /\ \A i \in 1..Len(batch_items) : batch_items[i].event # c
                 /\ batch_lock # c
                 /\ pc[c] \in {"single", "done"}
                 /\ pc[c] = "single" => c \in running
                 /\ pc[c] = "done" => got[c] = "single"

\* main_optimized.py has answered a 'url' and an 'images' request from the
\* handler's own call and an 'image' request from the result table
C32_Witness ==
    /\ variant = "optimized"
    /\ \E c \in Callers : kind[c] = "url" /\ pc[c] = "done" /\ got[c] = "single"
    /\ \E c \in Callers : kind[c] = "images" /\ pc[c] = "done" /\ got[c] = "single"
    /\ \E c \in Callers : kind[c] = "image" /\ pc[c] = "done" /\ got[c] = "table"

\* C33: request-count mode.  With no duration configured, when run has
\* returned the number of results the workers recorded equals
\* config.total_requests, and it is never more.
C33_ExactRequestCount ==
    duration = <<>> =>
        /\ Len(tester_results) <= total_requests
        /\ request_count <= total_requests
        /\ rpc = "returned" => Len(tester_results) = total_requests

\* C34: the duration takes precedence.  With a duration configured no worker
\* sets the stop event, however many requests have completed; the stop event
\* is set only by the duration controller, and only once the duration has
\* passed.
C34_DurationPriority ==
    /\ [](duration # <<>> => "worker" \notin stopped_by)
    /\ [][duration # <<>> /\ ~stop_event /\ stop_event'
              => /\ dpc = "sleeping" /\ dpc' = "returned"
                 /\ slept >= duration[1]
                 /\ stopped_by' = {"controller"}
                 /\ wpc' = wpc]_vars
    /\ [](duration # <<>> /\ rpc # "waiting" => stopped_by = {"controller"})

\* with a duration configured more requests than total_requests completed
\* before the controller stopped the run, and run has returned
C34_Witness ==
    /\ duration # <<>> /\ DurationSet
    /\ request_count > total_requests
    /\ rpc = "returned"
    /\ slept >= duration[1]

\* C35: run terminates.  With every task scheduled and every request
\* completing, the stop event is eventually set, the tasks end and run
\* returns a summary.
C35_RunTerminates ==
    <>(/\ rpc = "returned"
       /\ stop_event
       /\ \A w \in Workers : wpc[w] \notin {"created", "request"}
       /\ summary # NoSummary)

\* C36: accounting.  The number of recorded results equals _request_count at
\* every moment, and the summary run returns counts every request completed
\* during the run: total_requests is that number and successful_requests +
\* failed_requests = total_requests.
C36_Accounting ==
    /\ Len(tester_results) = request_count
    /\ rpc = "returned" =>
          /\ summary.total_requests = request_count
          /\ summary.successful_requests + summary.failed_requests
                 = summary.total_requests

=============================================================================
